---- MODULE Spec2Model ----
(***************************************************************************)
(* Portal renderer of the "weird" software renderer (src/src/main.rs).     *)
(*                                                                         *)
(* Numbers.  The program computes in f32; the model computes the same      *)
(* expressions in exact rational arithmetic.  World coordinates are        *)
(* integers in units of 1/UnitsPerWorld of a world unit, the camera looks  *)
(* along one of the four axis directions (where cos and sin are exact),    *)
(* and a camera-space point is a record [x, y, d] standing for             *)
(* (x/d, y/d), d > 0.  Every float-to-integer cast (`as isize`) is         *)
(* modelled: it truncates toward zero.                                     *)
(***************************************************************************)
EXTENDS Integers, Sequences, FiniteSets, TLC

\* The near clip depth 0.01 of main.rs:564/570, in model length units.
Eps == 2

\* Model length units per world unit (so that 0.01 world units is Eps).
UnitsPerWorld == 100 * Eps

\* Number of Render::render calls the host makes in one behaviour.
MaxCalls == 2

\* Cap on the depth of the render_sector recursion explored by the model.
MaxDepth == 7

(***************************************************************************)
(* Arithmetic helpers                                                      *)
(***************************************************************************)
Abs(a) == IF a < 0 THEN -a ELSE a

Max(a, b) == IF a > b THEN a ELSE b

RECURSIVE GCD(_, _)
GCD(a, b) == IF b = 0 THEN a ELSE GCD(b, a % b)

\* `as isize` of the rational n/m (m > 0): truncation toward zero.
TruncDiv(n, m) == IF n >= 0 THEN n \div m ELSE -((-n) \div m)

\* isize::clamp
Clamp(v, lo, hi) == IF v < lo THEN lo ELSE IF v > hi THEN hi ELSE v

(***************************************************************************)
(* Map / Sector / Edge model (main.rs:15-162)                              *)
(***************************************************************************)
Wall == [portal |-> FALSE, id |-> 0]

Portal(sector_id) == [portal |-> TRUE, id |-> sector_id]

\* Edges built without the wrap-around: the last edge joins the last point
\* to itself.
build_edges_NoWrap(points) ==
    [i \in 1..Len(points) |->
        LET left == points[i]
            right == points[IF i < Len(points) THEN i + 1 ELSE i]
            dx == right[1] - left[1]
            dy == right[2] - left[2]
        IN [p0 |-> left, p1 |-> right, d |-> <<dx, dy>>,
            d_cross_p0 |-> dx * left[2] - dy * left[1]]]

\* Sector::build_edges: edge i joins points[i] and the cyclically next point.
build_edges(points) ==
    [i \in 1..Len(points) |->
        LET left == points[i]
            right == points[(i % Len(points)) + 1]
            dx == right[1] - left[1]
            dy == right[2] - left[2]
        IN [p0 |-> left, p1 |-> right, d |-> <<dx, dy>>,
            d_cross_p0 |-> dx * left[2] - dy * left[1]]]

\* A Sector value as load_from_wmt builds it (edges derived from points).
MkSector(points, edge_types, floor, ceiling) ==
    [points |-> points, edge_types |-> edge_types,
     edges |-> build_edges(points), floor |-> floor, ceiling |-> ceiling]

\* A get_sector that clamps the index into the vector instead of failing.
get_sector_clamped(m, id) ==
    <<m.sectors[IF id < Len(m.sectors) THEN id + 1 ELSE Len(m.sectors)]>>

\* Map::get_sector (main.rs:159-161): self.sectors.get(id), an Option:
\* <<sector>> for Some(sector), <<>> for None.
get_sector(m, id) ==
    IF id < Len(m.sectors) THEN <<m.sectors[id + 1]>> ELSE <<>>

NumSectors(m) == Len(m.sectors)

\* An f32 whose value is the integer v; neg_zero tells -0.0 from +0.0 when
\* v = 0.  Coordinates and edge directions are never -0.0 (a difference
\* x - x is +0.0), so they enter as F(v).
F(v) == [v |-> v, neg_zero |-> FALSE]

\* The sign bit of an f32 (transmute::<f32, u32>(x) >> 31).
SignBit(x) == IF x.v < 0 \/ (x.v = 0 /\ x.neg_zero) THEN 1 ELSE 0

\* f32 multiplication: a zero product takes the xor of the signs.
FMul(x, y) ==
    [v |-> x.v * y.v,
     neg_zero |-> (x.v * y.v = 0) /\ (SignBit(x) # SignBit(y))]

\* f32 subtraction (round to nearest): an exact zero difference is +0.0,
\* except (-0.0) - (+0.0) = -0.0.
FSub(x, y) ==
    [v |-> x.v - y.v,
     neg_zero |-> /\ x.v = 0
                  /\ y.v = 0
                  /\ SignBit(x) = 1
                  /\ SignBit(y) = 0]

\* The half-plane value of an edge at a point,
\* d.x * point.y - d.y * point.x - d_cross_p0, with
\* d_cross_p0 = d.x * left.y - d.y * left.x as build_edges computed it.
coef(e, point) ==
    FSub(FSub(FMul(F(e.d[1]), F(point[2])), FMul(F(e.d[2]), F(point[1]))),
         FSub(FMul(F(e.d[1]), F(e.p0[2])), FMul(F(e.d[2]), F(e.p0[1]))))

\* sign_collector after the loop over the edges: bit 0 is set when some
\* edge gives sign bit 0, bit 1 when some edge gives sign bit 1.
sign_collector(sector, point) ==
    LET es == sector.edges
        bit0 == \E i \in DOMAIN es : SignBit(coef(es[i], point)) = 0
        bit1 == \E i \in DOMAIN es : SignBit(coef(es[i], point)) = 1
    IN  (IF bit0 THEN 1 ELSE 0) + (IF bit1 THEN 2 ELSE 0)

\* The byte Sector::contains of main.rs transmutes into a bool:
\* sign_collector ^ (sign_collector >> 1).
contains_byte(sector, point) ==
    LET c == sign_collector(sector, point)
    IN  CASE c = 3 -> 2      \* 3 ^ 1
          [] c = 1 -> 1      \* 1 ^ 0
          [] c = 2 -> 3      \* 2 ^ 1
          [] OTHER -> 0

\* Sector::contains.  transmute::<u8, bool> of 0 and 1 is defined; of 2 and
\* 3 it is undefined behaviour, resolved by the build: `ub` maps each
\* invalid byte to the truth value the compiled code acts on.
contains(ub, sector, point) ==
    LET b == contains_byte(sector, point)
    IN  IF b = 0 THEN FALSE ELSE IF b = 1 THEN TRUE ELSE ub[b]

\* Map::find_sector: index of the first sector containing the point, or -1
\* for None.
find_sector(ub, m, location) ==
    LET hits == {i \in 1..Len(m.sectors) : contains(ub, m.sectors[i], location)}
    IN  IF hits = {} THEN -1
        ELSE (CHOOSE i \in hits : \A j \in hits : i <= j) - 1

(***************************************************************************)
(* Point location of map.rs (Sector::contains, Map::find_sector,           *)
(* Map::find_adjacent_sector, Map::find_sector_from_old).  A sector id     *)
(* result is an Option<SectorId>: the id, or -1 for None.  map.rs keeps    *)
(* the EdgeType in Edge::ty; the model keeps it in edge_types[i].          *)
(***************************************************************************)
\* A containment test that accepts one winding order only.
Sector_contains_OneWinding(sector, point) ==
    sign_collector(sector, point) = 1

\* Sector::contains of map.rs (map.rs:101-109):
\* sign_collector != 0 && sign_collector != 3.
Sector_contains(sector, point) ==
    LET c == sign_collector(sector, point)
    IN  c # 0 /\ c # 3

\* Map::find_sector of map.rs (map.rs:176-182): the first sector, in index
\* order, that contains the location.
Map_find_sector(m, location) ==
    LET hits == {i \in 1..Len(m.sectors) : Sector_contains(m.sectors[i], location)}
    IN  IF hits = {} THEN -1
        ELSE (CHOOSE i \in hits : \A j \in hits : i <= j) - 1

\* An adjacency search that falls through to the full scan.
find_adjacent_sector_Scan(m, location, adjacent_for) ==
    Map_find_sector(m, location)

\* Map::find_adjacent_sector (map.rs:188-211): the hint itself when it
\* contains the location, else the target of the first portal edge of the
\* hint, in edge order, whose sector exists and contains the location.
find_adjacent_sector(m, location, adjacent_for) ==
    LET got == get_sector(m, adjacent_for)
    IN  IF got = <<>> THEN -1
        ELSE IF Sector_contains(got[1], location) THEN adjacent_for
        ELSE LET tys == got[1].edge_types
                 hits == {i \in DOMAIN tys :
                            /\ tys[i].portal
                            /\ get_sector(m, tys[i].id) # <<>>
                            /\ Sector_contains(get_sector(m, tys[i].id)[1],
                                               location)}
             IN  IF hits = {} THEN -1
                 ELSE tys[CHOOSE i \in hits : \A j \in hits : i <= j].id

\* A search that gives up when the adjacency search fails.
find_sector_from_old_NoFallback(m, location, old_sector) ==
    find_adjacent_sector(m, location, old_sector)

\* Map::find_sector_from_old (map.rs:217-220):
\* find_adjacent_sector(..).or_else(|| find_sector(location)).
find_sector_from_old(m, location, old_sector) ==
    LET adjacent == find_adjacent_sector(m, location, old_sector)
    IN  IF adjacent # -1 THEN adjacent ELSE Map_find_sector(m, location)

(***************************************************************************)
(* Camera (camera.rs)                                                      *)
(***************************************************************************)
\* cos and sin of a rotation given in quarter turns.
Cos(q) == CASE q % 4 = 0 -> 1 [] q % 4 = 1 -> 0 [] q % 4 = 2 -> -1 [] OTHER -> 0

Sin(q) == CASE q % 4 = 0 -> 0 [] q % 4 = 1 -> 1 [] q % 4 = 2 -> 0 [] OTHER -> -1

\* Camera::set_location(location, height, rotation)
set_location(location, height, rotation) ==
    LET direction == <<Cos(rotation), Sin(rotation)>>
        right == <<direction[2], -direction[1]>>
    IN [location |-> location, height |-> height, rotation |-> rotation,
        direction |-> direction, right |-> right,
        location_dot_direction |->
            location[1] * direction[1] + location[2] * direction[2],
        location_dot_right |->
            location[1] * right[1] + location[2] * right[2]]

\* Camera::to_space
to_space(cam, p) ==
    [x |-> p[1] * cam.right[1] + p[2] * cam.right[2] - cam.location_dot_right,
     y |-> p[1] * cam.direction[1] + p[2] * cam.direction[2]
             - cam.location_dot_direction,
     d |-> 1]

(***************************************************************************)
(* Render::render_sector, per-edge computations (main.rs:547-663)          *)
(***************************************************************************)
\* main.rs:563/569: the replacement for the endpoint behind the camera,
\* x = p0.x - p0.y * (p1.x - p0.x) / (p1.y - p0.y) and y = 0.01.
\* p0 and p1 are unclipped here (d = 1); the result is a reduced fraction.
clip_point(p0, p1) ==
    LET num == p0.x * (p1.y - p0.y) - p0.y * (p1.x - p0.x)
        den == p1.y - p0.y
        s == IF den < 0 THEN -1 ELSE 1
        g == GCD(Abs(num), Abs(den))
    IN  [x |-> (s * num) \div g, y |-> Eps * (Abs(den) \div g),
         d |-> Abs(den) \div g]

\* main.rs:548-572: both endpoints in camera space, ordered by x, then
\* clipped against the camera plane.  visible = FALSE is `continue`.
camera_edge(cam, edge) ==
    LET a == to_space(cam, edge.p0)
        b == to_space(cam, edge.p1)
        p0 == IF a.x > b.x THEN b ELSE a
        p1 == IF a.x > b.x THEN a ELSE b
    IN  IF p0.y <= 0
        THEN IF p1.y <= 0
             THEN [visible |-> FALSE, p0 |-> p0, p1 |-> p1]
             ELSE [visible |-> TRUE, p0 |-> clip_point(p0, p1), p1 |-> p1]
        ELSE IF p1.y <= 0
             THEN [visible |-> TRUE, p0 |-> p0, p1 |-> clip_point(p0, p1)]
             ELSE [visible |-> TRUE, p0 |-> p0, p1 |-> p1]

\* main.rs:575-577: (((p.x / p.y) + 1.0) / 2.0 * width) as isize, p.y > 0.
to_screen_x(p, width) == TruncDiv((p.x + p.y) * width, 2 * p.y)

\* Both columns clamped to the surface instead of the inherited range.
clipped_span_WholeSurface(ce, width, screen_x_begin, screen_x_end) ==
    LET x0 == Clamp(to_screen_x(ce.p0, width), 0, width)
        x1 == Clamp(to_screen_x(ce.p1, width), 0, width)
    IN  IF x0 > x1 THEN <<x1, x0>> ELSE <<x0, x1>>

\* main.rs:580-589: both columns clamped to the inherited range, ordered.
clipped_span(ce, width, screen_x_begin, screen_x_end) ==
    LET x0 == Clamp(to_screen_x(ce.p0, width), screen_x_begin, screen_x_end)
        x1 == Clamp(to_screen_x(ce.p1, width), screen_x_begin, screen_x_end)
    IN  IF x0 > x1 THEN <<x1, x0>> ELSE <<x0, x1>>

\* main.rs:591-596: wall and floor colour by recursion depth.
depth_colors(len) ==
    CASE len = 0 -> [color |-> 65280, floor_color |-> 34816]       \* 0x00FF00, 0x008800
      [] len = 1 -> [color |-> 16711680, floor_color |-> 8912896]  \* 0xFF0000, 0x880000
      [] len = 2 -> [color |-> 255, floor_color |-> 136]           \* 0x0000FF, 0x000088
      [] OTHER -> [color |-> 3355443, floor_color |-> 3355443]     \* 0x333333

\* main.rs:598-623: inv_distance of column x, as the fraction n/d in world
\* units.  The normalisation of the edge normal cancels:
\*   |pixel_dir . N| / |N . p0|,  N = (p1.y - p0.y, p0.x - p1.x).
\* d = 0 stands for the float results of dividing by zero: +inf when
\* n > 0, NaN when n = 0.
inv_distance(ce, x, width) ==
    LET p0 == ce.p0
        p1 == ce.p1
        nx == p1.y * p0.d - p0.y * p1.d
        ny == p0.x * p1.d - p1.x * p0.d
        cross == p0.x * p1.y - p1.x * p0.y
        a == (2 * x - width) * nx + width * ny
    IN  [n |-> UnitsPerWorld * Abs(a), d |-> width * Abs(cross)]

\* The row offset clamped to the whole height instead of half of it.
column_y_FullHeight(invd, height) ==
    IF invd.d = 0
    THEN IF invd.n = 0 THEN 0 ELSE height
    ELSE Clamp(TruncDiv(invd.n * height, invd.d), 0, height)

\* main.rs:625: ((inv_distance * height) as isize).clamp(0, height / 2).
\* `as isize` saturates +inf to isize::MAX and turns NaN into 0.
column_y(invd, height) ==
    IF invd.d = 0
    THEN IF invd.n = 0 THEN 0 ELSE height \div 2
    ELSE Clamp(TruncDiv(invd.n * height, invd.d), 0, height \div 2)

\* main.rs:631
ceil_row(y, height) == height \div 2 - y

\* main.rs:632
floor_row(y, height) == height \div 2 + y

\* main.rs:634-661: the colour the three fill loops leave in row r of one
\* column, or "keep" when no loop writes that row.  c0 and f0 are the
\* column's ceil_buffer and floor_buffer entries before the update.
column_fill(r, c0, f0, ceil_y, floor_y, is_portal, colors) ==
    LET after_ceil == Max(c0, ceil_y)
        after_wall == IF is_portal THEN floor_y ELSE Max(after_ceil, floor_y)
    IN  IF r >= c0 /\ r < ceil_y THEN <<14540253>>                \* 0xDDDDDD
        ELSE IF ~is_portal /\ r >= after_ceil /\ r < floor_y
             THEN <<colors.color>>
        ELSE IF r >= after_wall /\ r < f0 THEN <<colors.floor_color>>
        ELSE <<>>

(***************************************************************************)
(* Maps and camera poses the behaviours start from                         *)
(***************************************************************************)
\* One square room, every edge a wall, counter-clockwise.
RoomMap ==
    [sectors |-> <<
        MkSector(<< <<0, 0>>, <<1000, 0>>, <<1000, 1000>>, <<0, 1000>> >>,
                 <<Wall, Wall, Wall, Wall>>, 0, UnitsPerWorld)>>]

\* Sector 0 ("A", floor 0, ceiling 1) and sector 1 ("B", floor 0, ceiling 2,
\* clockwise) joined by a door in the middle of A's east side.
TwoRoomMap ==
    [sectors |-> <<
        MkSector(<< <<0, 0>>, <<800, 0>>, <<800, 140>>, <<800, 660>>,
                    <<800, 800>>, <<0, 800>> >>,
                 <<Wall, Wall, Portal(1), Wall, Wall, Wall>>,
                 0, UnitsPerWorld),
        MkSector(<< <<800, 140>>, <<800, 660>>, <<1600, 660>>, <<1600, 140>> >>,
                 <<Portal(0), Wall, Wall, Wall>>,
                 0, 2 * UnitsPerWorld)>>]

\* Four sectors around a square pillar: the portals form a cycle
\* 0 - 1 - 2 - 3 - 0, and sector 2 is reachable from 0 through 1 and
\* through 3.
RingMap ==
    [sectors |-> <<
        MkSector(<< <<0, 0>>, <<1200, 0>>, <<800, 400>>, <<400, 400>> >>,
                 <<Wall, Portal(1), Wall, Portal(3)>>, 0, UnitsPerWorld),
        MkSector(<< <<1200, 0>>, <<1200, 1200>>, <<800, 800>>, <<800, 400>> >>,
                 <<Wall, Portal(2), Wall, Portal(0)>>, 0, UnitsPerWorld),
        MkSector(<< <<1200, 1200>>, <<0, 1200>>, <<400, 800>>, <<800, 800>> >>,
                 <<Wall, Portal(3), Wall, Portal(1)>>, 0, UnitsPerWorld),
        MkSector(<< <<0, 1200>>, <<0, 0>>, <<400, 400>>, <<400, 800>> >>,
                 <<Wall, Portal(0), Wall, Portal(2)>>, 0, UnitsPerWorld)>>]

\* A room whose north edge is a portal to the room itself.
SelfPortalMap ==
    [sectors |-> <<
        MkSector(<< <<0, 0>>, <<1000, 0>>, <<1000, 1000>>, <<0, 1000>> >>,
                 <<Wall, Wall, Portal(0), Wall>>, 0, UnitsPerWorld)>>]

\* A room whose north edge is a portal to a sector that does not exist.
StalePortalMap ==
    [sectors |-> <<
        MkSector(<< <<0, 0>>, <<1000, 0>>, <<1000, 1000>>, <<0, 1000>> >>,
                 <<Wall, Wall, Portal(5), Wall>>, 0, UnitsPerWorld)>>]

Scene(m, location, rotation) ==
    [map |-> m, location |-> location, rotation |-> rotation]

\* Maps load_from_wmt can return, each with camera poses inside the map.
Scenes ==
    { Scene(RoomMap, <<500, 100>>, 1), Scene(RoomMap, <<500, 500>>, 0),
      Scene(RoomMap, <<1, 500>>, 1),
      Scene(TwoRoomMap, <<100, 400>>, 0), Scene(TwoRoomMap, <<100, 400>>, 1),
      Scene(TwoRoomMap, <<1200, 400>>, 2),
      Scene(RingMap, <<600, 100>>, 1), Scene(RingMap, <<300, 100>>, 0),
      Scene(RingMap, <<600, 1100>>, 3) }

\* Maps only a hand-built Map value can be (the loader never yields a
\* portal to the sector itself or to a missing sector).
MalformedScenes ==
    { Scene(SelfPortalMap, <<500, 100>>, 1), Scene(SelfPortalMap, <<500, 500>>, 0),
      Scene(StalePortalMap, <<500, 100>>, 1), Scene(StalePortalMap, <<500, 500>>, 2) }

\* Surface sizes <<width, height>>.
Surfaces == { <<8, 8>>, <<6, 5>> }

\* What the build makes of the invalid bool bytes 2 and 3.
Builds == [{2, 3} -> BOOLEAN]

(***************************************************************************)
(* State                                                                   *)
(***************************************************************************)
VARIABLES
    map,              \* the Map (read-only)
    camera,           \* the Camera
    surface,          \* Surface width and height
    ub,               \* the build's reading of invalid bool bytes
    pixels,           \* Surface data, by offset row * width + x
    mode,             \* "idle": host code runs, "render": inside Render::render
    calls,            \* number of Render::render calls made
    call_stack,       \* activations of render_sector, innermost last
    visit_stack,      \* SectorRenderContext.visit_stack
    floor_buffer,     \* SectorRenderContext.floor_buffer
    ceil_buffer,      \* SectorRenderContext.ceil_buffer
    inv_depth_buffer, \* SectorRenderContext.inv_depth_buffer
    writes,           \* history: number of writes to each pixel in this call
    prev_pixels,      \* history: Surface data when the previous call returned
    entered,          \* history: sector ids render_sector was entered with
    query,            \* the last point-location call and its result
    loaded,           \* the last load_from_wmt call and its result
    input,            \* Input.state.keys, a map from key codes to KeyState
    last_clear,       \* history: each key's pressed state at the last clear_changed
    fixed             \* the last Fixed::abs call and its result

vars == <<map, camera, surface, ub, pixels, mode, calls, call_stack,
          visit_stack, floor_buffer, ceil_buffer, inv_depth_buffer, writes,
          prev_pixels, entered, query, loaded, input, last_clear, fixed>>

Width == surface[1]

Height == surface[2]

Columns == 0..(Width - 1)

Offsets == 0..(Width * Height - 1)

\* The contents of the surface the host hands to each render call.
BlankPixels(size) == [off \in 0..(size[1] * size[2] - 1) |-> 0]

\* No point-location call has been made.
NoQuery ==
    [op |-> "none", point |-> <<0, 0>>, id |-> 0, hit |-> FALSE, result |-> -1]

\* No load_from_wmt call has been made.
NotLoaded == [source |-> <<>>, result |-> [ok |-> FALSE, error |-> "none"]]

\* The key codes the host reads (main.rs:815-816).
KeyCodes == {"KeyA", "KeyD", "KeyW", "KeyS"}

\* Input::new (input.rs:85-93): the key map is empty.
Input_new == [key \in {} |-> [pressed |-> FALSE, changed |-> FALSE]]

\* Every key is released when the Input is constructed.
AllReleased == [key \in KeyCodes |-> FALSE]

\* No Fixed::abs call has been made.
NoAbs ==
    [called |-> FALSE, self |-> [int |-> 0, frac |-> 0],
     result |-> [int |-> 0, frac |-> 0]]

\* The state before the first frame.
InitState(m, cam, size, build) ==
    /\ map = m
    /\ camera = cam
    /\ surface = size
    /\ ub = build
    /\ pixels = BlankPixels(size)
    /\ mode = "idle"
    /\ calls = 0
    /\ call_stack = <<>>
    /\ visit_stack = <<>>
    /\ floor_buffer = <<>>
    /\ ceil_buffer = <<>>
    /\ inv_depth_buffer = <<>>
    /\ writes = [off \in 0..(size[1] * size[2] - 1) |-> 0]
    /\ prev_pixels = BlankPixels(size)
    /\ entered = <<>>
    /\ query = NoQuery
    /\ loaded = NotLoaded
    /\ input = Input_new
    /\ last_clear = AllReleased
    /\ fixed = NoAbs

InitWith(scenes) ==
    \E scene \in scenes, size \in Surfaces, build \in Builds :
        InitState(scene.map,
                  set_location(scene.location, UnitsPerWorld \div 2,
                               scene.rotation),
                  size, build)

Init == InitWith(Scenes)

InitAnyMap == InitWith(Scenes \cup MalformedScenes)

(***************************************************************************)
(* Render::render and Render::render_sector as a stack machine             *)
(***************************************************************************)
\* One activation of render_sector: its arguments, the position of the
\* 'edge_loop iterator (1-based) and where the activation stands:
\*   "edge"     at the head of 'edge_loop,
\*   "check"    after visit_stack.push_back (main.rs:666),
\*   "call"     inside the recursive call (main.rs:669),
\*   "returned" after it, before visit_stack.pop_back (main.rs:672).
Activation(sector_id, screen_x_begin, screen_x_end) ==
    [sector_id |-> sector_id, screen_x_begin |-> screen_x_begin,
     screen_x_end |-> screen_x_end, edge |-> 1, stage |-> "edge",
     xp0 |-> 0, xp1 |-> 0]

Top == call_stack[Len(call_stack)]

SetTop(act) == [call_stack EXCEPT ![Len(call_stack)] = act]

PopBack(stack) == SubSeq(stack, 1, Len(stack) - 1)

\* VecDeque::contains
StackContains(stack, id) == \E i \in DOMAIN stack : stack[i] = id

InRender == mode = "render" /\ call_stack # <<>>

\* main.rs:542: context.map.get_sector(sector_id) of the running activation.
TopSector == get_sector(map, Top.sector_id)

\* The activation is at an edge of an existing sector.
AtEdge ==
    /\ InRender
    /\ Top.stage = "edge"
    /\ TopSector # <<>>
    /\ Top.edge <= Len(TopSector[1].edges)

CurrentEdge == TopSector[1].edges[Top.edge]

CurrentEdgeType == TopSector[1].edge_types[Top.edge]

\* main.rs:616-663: the column loop of the current edge over xp0..xp1, as
\* the new values of the surface data and of the three scan buffers (and of
\* the write counts).
paint_columns(ce, xp0, xp1, is_portal, colors, size, pix, wr, fb, cb, idb) ==
    LET width == size[1]
        height == size[2]
        cols == xp0..(xp1 - 1)
        invd == [x \in cols |-> inv_distance(ce, x, width)]
        ys == [x \in cols |-> column_y(invd[x], height)]
        fill == [off \in DOMAIN pix |->
                    IF (off % width) \in cols
                    THEN column_fill(off \div width, cb[off % width],
                                     fb[off % width],
                                     ceil_row(ys[off % width], height),
                                     floor_row(ys[off % width], height),
                                     is_portal, colors)
                    ELSE <<>>]
    IN  [pixels |-> [off \in DOMAIN pix |->
                        IF fill[off] = <<>> THEN pix[off] ELSE fill[off][1]],
         writes |-> [off \in DOMAIN pix |->
                        IF fill[off] = <<>> THEN wr[off] ELSE wr[off] + 1],
         floor_buffer |-> [x \in DOMAIN fb |->
                        IF x \in cols THEN floor_row(ys[x], height) ELSE fb[x]],
         ceil_buffer |-> [x \in DOMAIN cb |->
                        IF x \in cols THEN ceil_row(ys[x], height) ELSE cb[x]],
         inv_depth_buffer |-> [x \in DOMAIN idb |->
                        IF x \in cols THEN invd[x] ELSE idb[x]]]

\* A floor buffer pooled across calls and not refilled.
reused_floor_buffer ==
    IF floor_buffer = <<>> THEN [x \in Columns |-> Height] ELSE floor_buffer

\* main.rs:687-691: floor_buffer, width entries of surface.height.
new_floor_buffer == [x \in Columns |-> Height]

\* main.rs:692-696: ceil_buffer, width entries of 0.
new_ceil_buffer == [x \in Columns |-> 0]

\* main.rs:697-701: inv_depth_buffer, width entries of 0.0.
new_inv_depth_buffer == [x \in Columns |-> [n |-> 0, d |-> 1]]

\* Render::render (main.rs:680-706) with the camera it is handed: find the
\* camera's sector, create the context and make the root call; nothing
\* happens when no sector is found.
render(cam) ==
    /\ mode = "idle"
    /\ calls < MaxCalls
    /\ calls' = calls + 1
    /\ prev_pixels' = pixels
    /\ pixels' = BlankPixels(surface)
    /\ writes' = [off \in Offsets |-> 0]
    /\ LET sector_id == find_sector(ub, map, cam.location)
       IN  IF sector_id >= 0
           THEN /\ mode' = "render"
                /\ visit_stack' = <<>>
                /\ floor_buffer' = new_floor_buffer
                /\ ceil_buffer' = new_ceil_buffer
                /\ inv_depth_buffer' = new_inv_depth_buffer
                /\ call_stack' = <<Activation(sector_id, 0, Width)>>
                /\ entered' = <<sector_id>>
           ELSE /\ entered' = <<>>
                /\ UNCHANGED <<mode, visit_stack, floor_buffer, ceil_buffer,
                               inv_depth_buffer, call_stack>>

\* A frame in which no movement key is held (main.rs:818-820 leaves
\* 'input_control at once) followed by render.render (main.rs:831-835).
Render ==
    /\ render(camera)
    /\ UNCHANGED <<input, last_clear, fixed, query, loaded, map, camera, surface, ub>>

\* main.rs:558-560: the edge is behind the camera, `continue 'edge_loop`.
SkipEdge ==
    /\ AtEdge
    /\ ~camera_edge(camera, CurrentEdge).visible
    /\ call_stack' = SetTop([Top EXCEPT !.edge = @ + 1])
    /\ UNCHANGED <<input, last_clear, fixed, query, loaded, map, camera, surface, ub, pixels, mode, calls, visit_stack,
                   floor_buffer, ceil_buffer, inv_depth_buffer, writes,
                   prev_pixels, entered>>

\* main.rs:547-663: the current edge is projected and clipped (ce, span)
\* and its columns are painted with the colours of the current depth.
\* (ce, span and the result of the column loop are bound by \E over
\* singleton sets, so that each is computed once.)
PaintEdge(is_portal) ==
    \E ce \in {camera_edge(camera, CurrentEdge)} :
        /\ ce.visible
        /\ \E span \in {clipped_span(ce, Width, Top.screen_x_begin,
                                     Top.screen_x_end)} :
             /\ \E eff \in {paint_columns(ce, span[1], span[2], is_portal,
                                           depth_colors(Len(visit_stack)),
                                           surface, pixels, writes,
                                           floor_buffer, ceil_buffer,
                                           inv_depth_buffer)} :
                  /\ pixels' = eff.pixels
                  /\ writes' = eff.writes
                  /\ floor_buffer' = eff.floor_buffer
                  /\ ceil_buffer' = eff.ceil_buffer
                  /\ inv_depth_buffer' = eff.inv_depth_buffer
             /\ call_stack' =
                  IF is_portal
                  THEN SetTop([Top EXCEPT !.stage = "check", !.xp0 = span[1],
                                          !.xp1 = span[2]])
                  ELSE SetTop([Top EXCEPT !.edge = @ + 1])

\* main.rs:547-674 for a Wall edge: project, paint, next edge.
PaintWall ==
    /\ AtEdge
    /\ ~CurrentEdgeType.portal
    /\ PaintEdge(FALSE)
    /\ UNCHANGED <<input, last_clear, fixed, query, loaded, map, camera, surface, ub, mode, calls, visit_stack,
                   prev_pixels, entered>>

\* main.rs:547-666 for a Portal edge: project, paint the bands around the
\* opening, push the current sector id.
PaintPortal ==
    /\ AtEdge
    /\ CurrentEdgeType.portal
    /\ PaintEdge(TRUE)
    /\ visit_stack' = Append(visit_stack, Top.sector_id)
    /\ UNCHANGED <<input, last_clear, fixed, query, loaded, map, camera, surface, ub, mode, calls, prev_pixels, entered>>

\* A guard evaluated on the stack as it was before push_back.
MayDescend_BeforePush(stack, portal_sector_id) ==
    ~StackContains(PopBack(stack), portal_sector_id)

\* No guard at all.
MayDescend_Unguarded(stack, portal_sector_id) == TRUE

\* A guard that compares with the last pushed id only.
MayDescend_TopOnly(stack, portal_sector_id) ==
    stack = <<>> \/ stack[Len(stack)] # portal_sector_id

\* main.rs:668: the guard of the recursive call.
MayDescend(stack, portal_sector_id) == ~StackContains(stack, portal_sector_id)

\* main.rs:668-669: the target is not on the visit stack: recursive call
\* with the clipped span as the column range.
Descend ==
    /\ InRender
    /\ Top.stage = "check"
    /\ MayDescend(visit_stack, CurrentEdgeType.id)
    /\ Len(call_stack) < MaxDepth
    /\ call_stack' = Append(SetTop([Top EXCEPT !.stage = "call"]),
                            Activation(CurrentEdgeType.id, Top.xp0, Top.xp1))
    /\ entered' = Append(entered, CurrentEdgeType.id)
    /\ UNCHANGED <<input, last_clear, fixed, query, loaded, map, camera, surface, ub, pixels, mode, calls, visit_stack,
                   floor_buffer, ceil_buffer, inv_depth_buffer, writes,
                   prev_pixels>>

\* The skipped portal leaves its push on the stack.
SkipPortal_NoPop ==
    /\ InRender
    /\ Top.stage = "check"
    /\ ~MayDescend(visit_stack, CurrentEdgeType.id)
    /\ call_stack' = SetTop([Top EXCEPT !.stage = "edge", !.edge = @ + 1])
    /\ UNCHANGED <<input, last_clear, fixed, query, loaded, map, camera, surface, ub, pixels, mode, calls,
                   visit_stack, floor_buffer, ceil_buffer, inv_depth_buffer,
                   writes, prev_pixels, entered>>

\* main.rs:668-672: the target is on the visit stack: no call, pop, next edge.
SkipPortal ==
    /\ InRender
    /\ Top.stage = "check"
    /\ ~MayDescend(visit_stack, CurrentEdgeType.id)
    /\ visit_stack' = PopBack(visit_stack)
    /\ call_stack' = SetTop([Top EXCEPT !.stage = "edge", !.edge = @ + 1])
    /\ UNCHANGED <<input, last_clear, fixed, query, loaded, map, camera, surface, ub, pixels, mode, calls,
                   floor_buffer, ceil_buffer, inv_depth_buffer, writes,
                   prev_pixels, entered>>

\* render_sector returns: at once when the sector id is not in the map
\* (main.rs:542-545), otherwise when 'edge_loop is exhausted (main.rs:675).
\* The root activation returns into Render::render, which returns too.
Return ==
    /\ InRender
    /\ Top.stage = "edge"
    /\ \/ TopSector = <<>>
       \/ /\ TopSector # <<>>
          /\ Top.edge > Len(TopSector[1].edges)
    /\ IF Len(call_stack) = 1
       THEN /\ call_stack' = <<>>
            /\ mode' = "idle"
       ELSE /\ call_stack' =
                [PopBack(call_stack) EXCEPT ![Len(call_stack) - 1].stage = "returned"]
            /\ mode' = mode
    /\ UNCHANGED <<input, last_clear, fixed, query, loaded, map, camera, surface, ub, pixels, calls, visit_stack,
                   floor_buffer, ceil_buffer, inv_depth_buffer, writes,
                   prev_pixels, entered>>

\* The ids stay on the stack once pushed (a visited set).
PopVisit_Keep ==
    /\ InRender
    /\ Top.stage = "returned"
    /\ call_stack' = SetTop([Top EXCEPT !.stage = "edge", !.edge = @ + 1])
    /\ UNCHANGED <<input, last_clear, fixed, query, loaded, map, camera, surface, ub, pixels, mode, calls, visit_stack,
                   floor_buffer, ceil_buffer, inv_depth_buffer, writes,
                   prev_pixels, entered>>

\* main.rs:672: visit_stack.pop_back() after the recursive call, next edge.
PopVisit ==
    /\ InRender
    /\ Top.stage = "returned"
    /\ visit_stack' = PopBack(visit_stack)
    /\ call_stack' = SetTop([Top EXCEPT !.stage = "edge", !.edge = @ + 1])
    /\ UNCHANGED <<input, last_clear, fixed, query, loaded, map, camera, surface, ub, pixels, mode, calls,
                   floor_buffer, ceil_buffer, inv_depth_buffer, writes,
                   prev_pixels, entered>>

Next ==
    \/ Render
    \/ SkipEdge
    \/ PaintWall
    \/ PaintPortal
    \/ Descend
    \/ SkipPortal
    \/ Return
    \/ PopVisit

\* Behaviours on the maps the loader can return.
Spec == Init /\ [][Next]_vars

\* Behaviours on any Map value, malformed ones included.
SpecAnyMap == InitAnyMap /\ [][Next]_vars

\* The program is sequential: a step that can be taken is taken.
FairSpec == InitAnyMap /\ [][Next]_vars /\ WF_vars(Next)

(***************************************************************************)
(* The host's frame (main.rs:795-838)                                      *)
(***************************************************************************)
\* Key states: ox is A minus D, oy is W minus S (main.rs:815-816).
KeyAxis == {-1, 0, 1}

\* dt * 3.0 as a distance and dt * 2.0 as a rotation (main.rs:813,823-827),
\* on the grid of lengths and quarter turns the camera model is exact on.
StepLengths == {300}

TurnAngles == {1}

\* main.rs:822-825: the candidate location.
new_location(cam, oy, step) ==
    <<cam.location[1] + Cos(cam.rotation) * oy * step,
      cam.location[2] + Sin(cam.rotation) * oy * step>>

\* The camera after 'input_control when the query is not consulted.
input_control_Unchecked(build, m, cam, ox, oy, step, turn) ==
    IF ox = 0 /\ oy = 0
    THEN cam
    ELSE set_location(new_location(cam, oy, step), UnitsPerWorld \div 2,
                      cam.rotation + ox * turn)

\* The camera after 'input_control (main.rs:811-829).
input_control(build, m, cam, ox, oy, step, turn) ==
    IF ox = 0 /\ oy = 0
    THEN cam
    ELSE IF find_sector(build, m, new_location(cam, oy, step)) >= 0
         THEN set_location(new_location(cam, oy, step), UnitsPerWorld \div 2,
                           cam.rotation + ox * turn)
         ELSE cam

\* The find_sector call of the frame (main.rs:826), none when no key is held.
frame_query(build, m, cam, ox, oy, step) ==
    IF ox = 0 /\ oy = 0
    THEN NoQuery
    ELSE [op |-> "find_sector", point |-> new_location(cam, oy, step),
          id |-> 0,
          hit |-> find_sector(build, m, new_location(cam, oy, step)) >= 0,
          result |-> find_sector(build, m, new_location(cam, oy, step))]

\* RedrawRequested (main.rs:795-838): 'input_control, then render.render
\* with the camera it left.
Redraw ==
    \E ox \in KeyAxis, oy \in KeyAxis, step \in StepLengths,
       turn \in TurnAngles :
        /\ mode = "idle"
        /\ query' = frame_query(ub, map, camera, ox, oy, step)
        /\ camera' = input_control(ub, map, camera, ox, oy, step, turn)
        /\ render(camera')
        /\ UNCHANGED <<input, last_clear, fixed, loaded, map, surface, ub>>

\* Camera poses the host starts from.
HostScenes ==
    { Scene(RoomMap, <<500, 100>>, 1), Scene(TwoRoomMap, <<100, 400>>, 0) }

HostInit ==
    \E scene \in HostScenes, build \in Builds :
        InitState(scene.map,
                  set_location(scene.location, UnitsPerWorld \div 2,
                               scene.rotation),
                  <<6, 5>>, build)

HostNext ==
    \/ Redraw
    \/ SkipEdge
    \/ PaintWall
    \/ PaintPortal
    \/ Descend
    \/ SkipPortal
    \/ Return
    \/ PopVisit

HostSpec == HostInit /\ [][HostNext]_vars

(***************************************************************************)
(* Point-location calls on a map (map.rs)                                  *)
(***************************************************************************)
\* One square room, clockwise.
CwRoomMap ==
    [sectors |-> <<
        MkSector(<< <<0, 0>>, <<0, 1000>>, <<1000, 1000>>, <<1000, 0>> >>,
                 <<Wall, Wall, Wall, Wall>>, 0, UnitsPerWorld)>>]

\* One triangular room, counter-clockwise.
TriangleMap ==
    [sectors |-> <<
        MkSector(<< <<0, 0>>, <<1200, 0>>, <<0, 800>> >>,
                 <<Wall, Wall, Wall>>, 0, UnitsPerWorld)>>]

\* Three square rooms in a row, all counter-clockwise: 0 - 1 - 2.
RowMap ==
    [sectors |-> <<
        MkSector(<< <<0, 0>>, <<400, 0>>, <<400, 400>>, <<0, 400>> >>,
                 <<Wall, Portal(1), Wall, Wall>>, 0, UnitsPerWorld),
        MkSector(<< <<400, 0>>, <<800, 0>>, <<800, 400>>, <<400, 400>> >>,
                 <<Wall, Portal(2), Wall, Portal(0)>>, 0, UnitsPerWorld),
        MkSector(<< <<800, 0>>, <<1200, 0>>, <<1200, 400>>, <<800, 400>> >>,
                 <<Wall, Wall, Wall, Portal(1)>>, 0, UnitsPerWorld)>>]

QueryMaps ==
    {RoomMap, CwRoomMap, TriangleMap, TwoRoomMap, RingMap, RowMap,
     SelfPortalMap, StalePortalMap}

\* The points the calls are made with: a grid over and around the maps.
QueryPoints == {<<200 * i, 200 * j>> : i \in (-1)..9, j \in (-1)..7}

\* The sector ids the calls are made with: every index and one past them.
QueryIds == 0..NumSectors(map)

QueryInit ==
    \E m \in QueryMaps :
        InitState(m, set_location(<<0, 0>>, UnitsPerWorld \div 2, 0),
                  <<6, 5>>, [b \in {2, 3} |-> FALSE])

render_vars ==
    <<map, camera, surface, ub, pixels, mode, calls, call_stack, visit_stack,
      floor_buffer, ceil_buffer, inv_depth_buffer, writes, prev_pixels,
      entered>>

\* sector.contains(point) on a sector of the map.
Contains ==
    /\ query = NoQuery
    /\ \E id \in 0..(NumSectors(map) - 1), point \in QueryPoints :
          query' = [op |-> "contains", point |-> point, id |-> id,
                    hit |-> Sector_contains(get_sector(map, id)[1], point),
                    result |-> -1]
    /\ UNCHANGED <<render_vars, loaded, input, last_clear, fixed>>

\* map.find_sector(location).
FindSector ==
    /\ query = NoQuery
    /\ \E point \in QueryPoints :
          query' = [op |-> "find_sector", point |-> point, id |-> 0,
                    hit |-> FALSE, result |-> Map_find_sector(map, point)]
    /\ UNCHANGED <<render_vars, loaded, input, last_clear, fixed>>

\* map.find_adjacent_sector(location, adjacent_for).
FindAdjacentSector ==
    /\ query = NoQuery
    /\ \E id \in QueryIds, point \in QueryPoints :
          query' = [op |-> "find_adjacent_sector", point |-> point, id |-> id,
                    hit |-> FALSE,
                    result |-> find_adjacent_sector(map, point, id)]
    /\ UNCHANGED <<render_vars, loaded, input, last_clear, fixed>>

\* map.find_sector_from_old(location, old_sector).
FindSectorFromOld ==
    /\ query = NoQuery
    /\ \E id \in QueryIds, point \in QueryPoints :
          query' = [op |-> "find_sector_from_old", point |-> point, id |-> id,
                    hit |-> FALSE,
                    result |-> find_sector_from_old(map, point, id)]
    /\ UNCHANGED <<render_vars, loaded, input, last_clear, fixed>>

QueryNext ==
    \/ Contains
    \/ FindSector
    \/ FindAdjacentSector
    \/ FindSectorFromOld

\* Behaviours that make one point-location call on a map (the functions are
\* pure: a call leaves the map as it was).
QuerySpec == QueryInit /\ [][QueryNext]_vars

(***************************************************************************)
(* Map::load_from_wmt (map.rs:269-419).  A source text is the sequence of  *)
(* its trimmed lines, a line the sequence of the pieces `split(' ')`       *)
(* gives; an empty line is the one piece "".                               *)
(***************************************************************************)
\* The f32 NaN, which str::parse::<f32> reads from "NaN": a value beside
\* the modelled coordinates, compared only by f32_gt and f32_le.
NaN == -1000000

\* f32 `>` and `<=`: false when an operand is NaN.
f32_gt(a, b) == a # NaN /\ b # NaN /\ a > b

f32_le(a, b) == a # NaN /\ b # NaN /\ a <= b

\* str::parse::<f32>, an Option: <<value>> or <<>>.
parse_f32(s) ==
    CASE s = "0" -> <<0>>
      [] s = "1" -> <<UnitsPerWorld>>
      [] s = "2" -> <<2 * UnitsPerWorld>>
      [] s = "4" -> <<4 * UnitsPerWorld>>
      [] s = "-1" -> <<-UnitsPerWorld>>
      [] s = "NaN" -> <<NaN>>
      [] OTHER -> <<>>

\* str::parse::<u32>, an Option: <<value>> or <<>>.
parse_u32(s) ==
    CASE s = "0" -> <<0>>
      [] s = "1" -> <<1>>
      [] s = "2" -> <<2>>
      [] s = "3" -> <<3>>
      [] s = "4" -> <<4>>
      [] s = "5" -> <<5>>
      [] s = "9" -> <<9>>
      [] OTHER -> <<>>

\* UnorderedPair::new (unordered_pair.rs:10-24).
UnorderedPair(first, second) ==
    IF first < second THEN <<first, second>> ELSE <<second, first>>

\* The pair of the edge that starts at entry i of a sector's index list
\* (map.rs:333-342, 372-379): entry i and the cyclically next entry.
EdgePair(point_indices, i) ==
    UnorderedPair(point_indices[i],
                  point_indices[(i % Len(point_indices)) + 1])

\* SectorData::walls (map.rs:333-342).
SectorWalls(point_indices) ==
    { EdgePair(point_indices, i) : i \in 1..Len(point_indices) }

\* The data collected before any line is read (map.rs:276-284).
NoData ==
    [error |-> "none", points |-> <<>>, walls |-> {}, sectors |-> <<>>,
     camera_location |-> <<0, 0>>, camera_height |-> 0,
     camera_rotation |-> 0]

Fail(data, error) == [data EXCEPT !.error = error]

\* map.rs:300-305
ParsePoint(data, line) ==
    IF Len(line) < 3
    THEN Fail(data, "NotEnoughPointCoordinates")
    ELSE IF parse_f32(line[2]) = <<>> \/ parse_f32(line[3]) = <<>>
         THEN Fail(data, "NumberParsingError")
         ELSE [data EXCEPT !.points =
                  Append(@, <<parse_f32(line[2])[1], parse_f32(line[3])[1]>>)]

\* map.rs:308-318
ParseWall(data, line) ==
    IF Len(line) < 3
    THEN Fail(data, "NotEnoughPointCoordinates")
    ELSE IF parse_u32(line[2]) = <<>> \/ parse_u32(line[3]) = <<>>
         THEN Fail(data, "NumberParsingError")
         ELSE [data EXCEPT !.walls =
                  @ \cup {UnorderedPair(parse_u32(line[2])[1],
                                        parse_u32(line[3])[1])}]

\* map.rs:321-345
ParseSector(data, line) ==
    IF Len(line) < 3
    THEN Fail(data, "NotEnoughPointCoordinates")
    ELSE IF parse_f32(line[2]) = <<>> \/ parse_f32(line[3]) = <<>>
         THEN Fail(data, "NumberParsingError")
         ELSE IF \E i \in 4..Len(line) : parse_u32(line[i]) = <<>>
              THEN Fail(data, "NumberParsingError")
              ELSE IF Len(line) - 3 < 3
                   THEN Fail(data, "NotEnoughSectorVertices")
                   ELSE LET point_indices ==
                                [i \in 1..(Len(line) - 3) |->
                                    parse_u32(line[i + 3])[1]]
                        IN [data EXCEPT !.sectors =
                               Append(@,
                                   [point_indices |-> point_indices,
                                    floor |-> parse_f32(line[2])[1],
                                    ceiling |-> parse_f32(line[3])[1],
                                    walls |-> SectorWalls(point_indices)])]

\* map.rs:347-354
ParseCamera(data, line) ==
    IF Len(line) < 5
    THEN Fail(data, "NotEnoughCameraParameters")
    ELSE IF \E i \in 2..5 : parse_f32(line[i]) = <<>>
         THEN Fail(data, "NumberParsingError")
         ELSE [data EXCEPT
                  !.camera_location =
                      <<parse_f32(line[2])[1], parse_f32(line[3])[1]>>,
                  !.camera_height = parse_f32(line[4])[1],
                  !.camera_rotation = parse_f32(line[5])[1]]

\* One turn of the line loop (map.rs:288-357).
ParseLine(data, line) ==
    CASE line[1] \in {"#", ""} -> data
      [] line[1] \in {"p", "point"} -> ParsePoint(data, line)
      [] line[1] \in {"w", "wall"} -> ParseWall(data, line)
      [] line[1] \in {"s", "sector"} -> ParseSector(data, line)
      [] line[1] \in {"c", "camera"} -> ParseCamera(data, line)
      [] OTHER -> Fail(data, "UnknownLineType")

\* The line loop (map.rs:287-358): the first error ends it.
RECURSIVE ParseLines(_, _, _)
ParseLines(source, i, data) ==
    IF i > Len(source) \/ data.error # "none"
    THEN data
    ELSE ParseLines(source, i + 1, ParseLine(data, source[i]))

\* Every sector whose walls hold the pair, sector_index itself included.
adjoint_candidates_WithSelf(data, sector_index, pair) ==
    { index \in 0..(Len(data.sectors) - 1) :
        pair \in data.sectors[index + 1].walls }

\* map.rs:385-387: the sectors other than sector_index whose walls hold
\* the pair.
adjoint_candidates(data, sector_index, pair) ==
    { index \in 0..(Len(data.sectors) - 1) :
        index # sector_index /\ pair \in data.sectors[index + 1].walls }

\* map.rs:378-396: the type of the edge that starts at entry i, or
\* <<>> for NoAdjointSectorForPortal; `find` takes the first candidate.
edge_type(data, sector_index, i) ==
    LET pair == EdgePair(data.sectors[sector_index + 1].point_indices, i)
        candidates == adjoint_candidates(data, sector_index, pair)
    IN  IF pair \in data.walls
        THEN <<Wall>>
        ELSE IF candidates = {}
             THEN <<>>
             ELSE <<Portal(CHOOSE index \in candidates :
                               \A other \in candidates : index <= other)>>

\* The closure of map.rs:363-415 for one sector: the first failing check
\* in the order points, edges, bounds, or the Sector.
build_sector(data, sector_index) ==
    LET sector == data.sectors[sector_index + 1]
        n == Len(sector.point_indices)
    IN  IF \E i \in 1..n : sector.point_indices[i] >= Len(data.points)
        THEN [error |-> "InvalidPointIndex"]
        ELSE IF \E i \in 1..n : edge_type(data, sector_index, i) = <<>>
             THEN [error |-> "NoAdjointSectorForPortal"]
             ELSE IF f32_gt(sector.floor, sector.ceiling)
                  THEN [error |-> "InvalidSectorBounds"]
                  ELSE [error |-> "none",
                        sector |->
                            MkSector(
                                [i \in 1..n |->
                                    data.points[sector.point_indices[i] + 1]],
                                [i \in 1..n |->
                                    edge_type(data, sector_index, i)[1]],
                                sector.floor, sector.ceiling)]

\* map.rs:361-418: the sectors are built in order, the first error is
\* returned, else the Map.
build_map(data) ==
    LET ids == 0..(Len(data.sectors) - 1)
        failed == { id \in ids : build_sector(data, id).error # "none" }
    IN  IF failed # {}
        THEN [ok |-> FALSE,
              error |-> build_sector(data,
                            CHOOSE id \in failed :
                                \A other \in failed : id <= other).error]
        ELSE [ok |-> TRUE, error |-> "none",
              map |-> [sectors |->
                          [i \in 1..Len(data.sectors) |->
                              build_sector(data, i - 1).sector]],
              camera_location |-> data.camera_location,
              camera_height |-> data.camera_height,
              camera_rotation |-> data.camera_rotation]

\* Map::load_from_wmt: Ok(Map) or Err(WmtLoadingError).
load_from_wmt(source) ==
    LET data == ParseLines(source, 1, NoData)
    IN  IF data.error # "none"
        THEN [ok |-> FALSE, error |-> data.error]
        ELSE build_map(data)

\* Source texts: six point lines, some wall lines, sector lines and a tail.
MaxSectorLines == 3

PointLines ==
    << <<"p", "0", "0">>, <<"p", "2", "0">>, <<"p", "2", "2">>,
       <<"point", "0", "2">>, <<"p", "4", "0">>, <<"p", "4", "2">> >>

OuterWallLines ==
    << <<"w", "0", "1">>, <<"w", "2", "3">>, <<"w", "3", "0">>,
       <<"w", "1", "4">>, <<"w", "4", "5">>, <<"wall", "5", "2">>,
       <<"w", "5", "1">> >>

WallLineChoices ==
    { <<>>, OuterWallLines, OuterWallLines \o << <<"w", "2", "1">> >> }

\* Index lists: two squares side by side (the second in either winding),
\* a triangle on their common side, a list of two indices, a list with
\* an index no point line declares and the first square in a self-crossing
\* order.
GoodIndexLists ==
    { <<"0", "1", "2", "3">>, <<"1", "4", "5", "2">>,
      <<"2", "5", "4", "1">>, <<"1", "2", "5">> }

IndexLists ==
    GoodIndexLists
        \cup { <<"0", "1">>, <<"0", "1", "9">>, <<"0", "2", "1", "3">> }

BoundsChoices == { <<"0", "1">>, <<"1", "0">>, <<"NaN", "1">> }

SectorLine(bounds, indices) == <<"s">> \o bounds \o indices

PlainSectorLines ==
    { SectorLine(<<"0", "1">>, indices) : indices \in GoodIndexLists }

SectorLines ==
    { SectorLine(bounds, indices) :
        bounds \in BoundsChoices, indices \in IndexLists }

SectorLineSeqs ==
    UNION ({ [1..n -> PlainSectorLines] : n \in 1..MaxSectorLines }
           \cup { [1..n -> SectorLines] : n \in 1..2 })

TailChoices ==
    { <<>>, << <<"c", "1", "1", "0", "0">> >>, << <<"door", "1", "2">> >>,
      << <<"">>, <<"#", "end">>, <<"camera", "1", "1", "q", "0">> >> }

Sources ==
    { PointLines \o wall_lines \o sector_lines \o tail :
        wall_lines \in WallLineChoices, sector_lines \in SectorLineSeqs,
        tail \in TailChoices }

LoaderInit ==
    InitState(RoomMap, set_location(<<0, 0>>, UnitsPerWorld \div 2, 0),
              <<6, 5>>, [b \in {2, 3} |-> FALSE])

\* `Map::load_from_wmt(map_source)` (main.rs:766-767) on one source text.
Load ==
    /\ loaded = NotLoaded
    /\ \E source \in Sources :
          loaded' = [source |-> source, result |-> load_from_wmt(source)]
    /\ UNCHANGED <<query, render_vars, input, last_clear, fixed>>

LoaderNext == Load

LoaderSpec == LoaderInit /\ [][LoaderNext]_vars

(***************************************************************************)
(* Startup of the host (main.rs:767-771, camera.rs:35-68).  Here every f32 *)
(* is a number of 1/UnitsPerWorld, angles (in radians) included, and cos   *)
(* and sin are rounded to that unit.                                       *)
(***************************************************************************)
\* f32::cos and f32::sin for the angles 0, 0.5, 1 and 2 rad.
cos_f32(a) ==
    CASE a = 0 -> UnitsPerWorld
      [] a = UnitsPerWorld \div 2 -> 176
      [] a = UnitsPerWorld -> 108
      [] OTHER -> -83

sin_f32(a) ==
    CASE a = 0 -> 0
      [] a = UnitsPerWorld \div 2 -> 96
      [] a = UnitsPerWorld -> 168
      [] OTHER -> 182

\* Camera::new (camera.rs:35-45).
Camera_new ==
    [location |-> <<0, 0>>, height |-> UnitsPerWorld \div 2, rotation |-> 0,
     direction |-> <<UnitsPerWorld, 0>>, right |-> <<0, -UnitsPerWorld>>,
     location_dot_direction |-> 0, location_dot_right |-> 0]

\* Camera::set_location(location, height, rotation) (camera.rs:51-68).
Camera_set_location(location, height, rotation) ==
    LET direction == <<cos_f32(rotation), sin_f32(rotation)>>
        right == <<direction[2], -direction[1]>>
    IN  [location |-> location, height |-> height, rotation |-> rotation,
         direction |-> direction, right |-> right,
         location_dot_direction |->
             (location[1] * direction[1] + location[2] * direction[2])
                 \div UnitsPerWorld,
         location_dot_right |->
             (location[1] * right[1] + location[2] * right[2])
                 \div UnitsPerWorld]

\* Spawn parameters of the loaded Map (main.rs:133-134).
SpawnLocations == { <<100 * i, 100 * j>> : i \in 1..5, j \in 1..5 }

SpawnRotations == { 0, UnitsPerWorld \div 2, UnitsPerWorld, 2 * UnitsPerWorld }

\* main.rs:768-769: the Map is loaded and the camera is Camera::new().
StartupInit ==
    \E location \in SpawnLocations, rotation \in SpawnRotations :
        /\ map = RoomMap
        /\ camera = Camera_new
        /\ surface = <<6, 5>>
        /\ ub = [b \in {2, 3} |-> FALSE]
        /\ pixels = BlankPixels(<<6, 5>>)
        /\ mode = "startup"
        /\ calls = 0
        /\ call_stack = <<>>
        /\ visit_stack = <<>>
        /\ floor_buffer = <<>>
        /\ ceil_buffer = <<>>
        /\ inv_depth_buffer = <<>>
        /\ writes = [off \in 0..29 |-> 0]
        /\ prev_pixels = BlankPixels(<<6, 5>>)
        /\ entered = <<>>
        /\ input = Input_new
        /\ last_clear = AllReleased
        /\ fixed = NoAbs
        /\ query = NoQuery
        /\ loaded = [source |-> <<>>,
                     result |-> [ok |-> TRUE, error |-> "none", map |-> RoomMap,
                                 camera_location |-> location,
                                 camera_rotation |-> rotation]]

\* main.rs:771: camera.set_location(map.camera_location,
\* map.camera_rotation, 0.5).
Startup ==
    /\ mode = "startup"
    /\ camera' = Camera_set_location(loaded.result.camera_location,
                                     loaded.result.camera_rotation,
                                     UnitsPerWorld \div 2)
    /\ mode' = "idle"
    /\ UNCHANGED <<input, last_clear, fixed, query, loaded, map, surface, ub, pixels, calls, call_stack,
                   visit_stack, floor_buffer, ceil_buffer, inv_depth_buffer,
                   writes, prev_pixels, entered>>

StartupNext == Startup

StartupSpec == StartupInit /\ [][StartupNext]_vars

(***************************************************************************)
(* The key map of the Input (input.rs).  The mouse fields are floats that  *)
(* no key function reads; they are left out.                               *)
(***************************************************************************)
\* State::get_key_state (input.rs:33-39): a key without an entry reads as
\* released and unchanged.
get_key_state(inp, key) ==
    IF key \in DOMAIN inp
    THEN inp[key]
    ELSE [pressed |-> FALSE, changed |-> FALSE]

\* State::is_key_pressed (input.rs:44-46).
is_key_pressed(inp, key) == get_key_state(inp, key).pressed

\* State::is_key_clicked (input.rs:58-61).
is_key_clicked(inp, key) ==
    LET state == get_key_state(inp, key)
    IN  state.pressed /\ state.changed

\* Input::on_key_state_change (input.rs:97-104): the entry is updated or
\* inserted; changed is set in both branches.
on_key_state_change(inp, key, is_pressed) ==
    [k \in (DOMAIN inp) \cup {key} |->
        IF k = key
        THEN [pressed |-> is_pressed, changed |-> TRUE]
        ELSE inp[k]]

\* Input::clear_changed (input.rs:115-120).
clear_changed(inp) ==
    [k \in DOMAIN inp |-> [inp[k] EXCEPT !.changed = FALSE]]

InputInit ==
    InitState(RoomMap, set_location(<<0, 0>>, UnitsPerWorld \div 2, 0),
              <<6, 5>>, [b \in {2, 3} |-> FALSE])

\* WindowEvent::KeyboardInput (main.rs:786-788).  The keyboard reports a
\* press for a released key, a repeated press for a held key (the handler
\* does not look at event.repeat) and a release for a held key.
KeyboardInput ==
    \E key \in KeyCodes, is_pressed \in BOOLEAN :
        /\ is_pressed \/ is_key_pressed(input, key)
        /\ input' = on_key_state_change(input, key, is_pressed)
        /\ UNCHANGED <<render_vars, query, loaded, last_clear, fixed>>

\* input.clear_changed() at the end of a frame (main.rs:839).
ClearChanged ==
    /\ input' = clear_changed(input)
    /\ last_clear' = [key \in KeyCodes |-> is_key_pressed(input, key)]
    /\ UNCHANGED <<render_vars, query, loaded, fixed>>

InputNext ==
    \/ KeyboardInput
    \/ ClearChanged

InputSpec == InputInit /\ [][InputNext]_vars

(***************************************************************************)
(* Fixed (util/fixed/mod.rs): a 16.16 number in an i32.  An i32 is kept as *)
(* its two 16-bit halves, int the upper half read as signed and frac the   *)
(* lower half read as unsigned: its value is int * 65536 + frac.           *)
(***************************************************************************)
\* The width of each half (mod.rs:209, 217).
FractBits == 16

\* 1.0 as bits (mod.rs:254).
FractOne == 2 ^ FractBits

I32(int, frac) == [int |-> int, frac |-> frac]

\* A half as an unsigned bit pattern, and back.
unsigned16(h) == h % FractOne
signed16(u) == IF u >= FractOne \div 2 THEN u - FractOne ELSE u

\* The exclusive or of two n-bit patterns.
RECURSIVE xor_bits(_, _, _)
xor_bits(a, b, n) ==
    IF n = 0
    THEN 0
    ELSE (((a % 2) + (b % 2)) % 2) + 2 * xor_bits(a \div 2, b \div 2, n - 1)

\* `a ^ b` on i32.
i32_xor(a, b) ==
    I32(signed16(xor_bits(unsigned16(a.int), unsigned16(b.int), FractBits)),
        xor_bits(a.frac, b.frac, FractBits))

\* `a << 16` on i32: the lower half becomes the upper half, the upper half
\* is shifted out.
i32_shl16(a) == I32(signed16(a.frac), 0)

\* `a >> 31` on i32 (arithmetic): every bit becomes a copy of the sign bit.
i32_shr31(a) == IF a.int < 0 THEN I32(-1, FractOne - 1) ELSE I32(0, 0)

\* Fixed::abs (mod.rs:234-238): value ^ (value << 16 >> 31).
Fixed_abs(self) == i32_xor(self, i32_shr31(i32_shl16(self)))

\* Inputs of Fixed::abs: values around zero and around one half, integers
\* and fractions, up to the ends of the range of numbers whose magnitude is
\* an i32 (i32::MIN, whose magnitude is not, is left out).
FixedInts == {-32767, -3, -2, -1, 0, 1, 2, 32767}
FixedFracts ==
    {0, 1, 2, 255, 256, 4096, 16384, 32767, 32768, 32769, 49152, 65534, 65535}
FixedInputs == { I32(int, frac) : int \in FixedInts, frac \in FixedFracts }

FixedInit ==
    InitState(RoomMap, set_location(<<0, 0>>, UnitsPerWorld \div 2, 0),
              <<6, 5>>, [b \in {2, 3} |-> FALSE])

\* One call of Fixed::abs.
AbsCall ==
    /\ ~fixed.called
    /\ \E self \in FixedInputs :
          fixed' = [called |-> TRUE, self |-> self, result |-> Fixed_abs(self)]
    /\ UNCHANGED <<render_vars, query, loaded, input, last_clear>>

FixedNext == AbsCall

FixedSpec == FixedInit /\ [][FixedNext]_vars

(***************************************************************************)
(* Properties                                                              *)
(***************************************************************************)
\* The sector ids of the active render_sector activations, root first.
PathIds == {call_stack[i].sector_id : i \in DOMAIN call_stack}

\* C1: during a render call, on any map (cycles and self-portals
\* included), render_sector is never entered for a sector id that is
\* already on the active recursion path: the sector ids of the active
\* activations are pairwise different, and the running activation's id is
\* not on the visit stack.
C1_NoReentry ==
    /\ \A i, j \in DOMAIN call_stack :
          i < j => call_stack[i].sector_id # call_stack[j].sector_id
    /\ (InRender /\ Top.stage = "edge")
          => ~StackContains(visit_stack, Top.sector_id)

\* A portal that closes a cycle of at least three sectors is at the guard.
C1_Witness ==
    /\ InRender
    /\ Top.stage = "check"
    /\ Len(visit_stack) >= 3
    /\ CurrentEdgeType.id = visit_stack[1]

\* C2: every call of Render::render terminates, whatever the portal graph.
C2_Terminates == (mode = "render") ~> (mode = "idle")

\* A call has returned after entering more sectors than the map has.
C2_Witness ==
    /\ mode = "idle"
    /\ calls >= 1
    /\ Len(entered) > NumSectors(map)

\* C3: the visit stack never holds a sector id twice and is never longer
\* than the number of sectors, and neither is the chain of render_sector
\* activations.
C3_StackBounded ==
    /\ \A i, j \in DOMAIN visit_stack : i < j => visit_stack[i] # visit_stack[j]
    /\ Len(visit_stack) <= NumSectors(map)
    /\ Len(call_stack) <= NumSectors(map)

\* The visit stack holds every sector of a map of several sectors.
C3_Witness ==
    /\ InRender
    /\ NumSectors(map) >= 3
    /\ Len(visit_stack) = NumSectors(map)

\* C4 (as claimed): every recursive call receives a non-empty column range.
C4_RecursesOnlyNonEmpty ==
    \A i \in DOMAIN call_stack :
        i > 1 => call_stack[i].screen_x_begin < call_stack[i].screen_x_end

\* C5: an activation of render_sector for a sector id that is not an index
\* of the map does nothing but return: its only step pops the activation and
\* leaves pixels, scan buffers and visit stack unchanged.
C5_MissingSectorNoop ==
    [][(InRender /\ Top.sector_id >= NumSectors(map))
        => /\ call_stack' = [PopBack(call_stack)
                               EXCEPT ![Len(call_stack) - 1].stage = "returned"]
           /\ pixels' = pixels
           /\ ceil_buffer' = ceil_buffer
           /\ floor_buffer' = floor_buffer
           /\ inv_depth_buffer' = inv_depth_buffer
           /\ visit_stack' = visit_stack]_vars

\* The call through a portal to a missing sector has returned.
C5_Witness ==
    /\ InRender
    /\ Top.stage = "returned"
    /\ CurrentEdgeType.id >= NumSectors(map)
    /\ \E off \in Offsets : writes[off] > 0

\* C6 (as claimed): within a render call every step leaves each column's
\* ceil_buffer entry at or above, and floor_buffer entry at or below, its
\* previous value, with ceil_buffer[x] <= floor_buffer[x].
C6_OpenRangeShrinks ==
    [][mode = "render"
        => \A x \in Columns :
              /\ ceil_buffer'[x] >= ceil_buffer[x]
              /\ floor_buffer'[x] <= floor_buffer[x]
              /\ ceil_buffer'[x] <= floor_buffer'[x]]_vars

\* C7 (as claimed): one sector, all edges walls, camera strictly inside:
\* when render has returned every pixel of the surface has been written.
C7_RoomFullyPainted ==
    LET es == map.sectors[1].edges
        side(e) == e.d[1] * camera.location[2] - e.d[2] * camera.location[1]
                     - e.d_cross_p0
    IN  (/\ NumSectors(map) = 1
         /\ \A i \in DOMAIN es : ~map.sectors[1].edge_types[i].portal
         /\ \/ \A i \in DOMAIN es : side(es[i]) > 0
            \/ \A i \in DOMAIN es : side(es[i]) < 0
         /\ mode = "idle"
         /\ calls >= 1)
        => \A off \in Offsets : writes[off] >= 1

\* C8: two render calls with the same map, camera and surface contents
\* leave the same pixels, and a call starts from fresh scan buffers and an
\* empty visit stack.
C8_Deterministic ==
    /\ (mode = "idle" /\ calls >= 2) => pixels = prev_pixels
    /\ (InRender /\ Len(entered) = 1 /\ Top.edge = 1 /\ Top.stage = "edge")
          => /\ visit_stack = <<>>
             /\ ceil_buffer = [x \in Columns |-> 0]
             /\ floor_buffer = [x \in Columns |-> Height]

\* The second call has returned and has painted something.
C8_Witness ==
    /\ mode = "idle"
    /\ calls >= 2
    /\ \E off \in Offsets : pixels[off] # 0

\* C9 (as claimed): sector A (ceiling 1) and sector B (ceiling 2) joined by
\* a portal, camera in A facing it.  When B is entered, every column of the
\* portal span holds A's step band in the rows between the row of B's
\* ceiling and the row of A's ceiling (rows by the projection
\* ((camera.height - h) * inv_distance + 1) / 2 * height, clamped); and when
\* render has returned, the columns outside the span hold A's colours only.
C9_StepBand ==
    LET a == map.sectors[1]
        b == map.sectors[2]
        ce == camera_edge(camera, a.edges[3])
        span == clipped_span(ce, Width, 0, Width)
        row(h, x) ==
            LET invd == inv_distance(ce, x, Width)
                g == GCD(invd.n, invd.d)
                n == invd.n \div g
                d == invd.d \div g
            IN  Clamp(TruncDiv(Height * ((camera.height - h) * n
                                          + UnitsPerWorld * d),
                               2 * UnitsPerWorld * d), 0, Height)
    IN  (/\ map = TwoRoomMap
         /\ contains_byte(a, camera.location) = 1
         /\ camera.direction = <<1, 0>>)
        => /\ (/\ InRender
               /\ Len(call_stack) = 2
               /\ Top.sector_id = 1
               /\ Top.edge = 1
               /\ Top.stage = "edge")
              => \A x \in span[1]..(span[2] - 1) :
                    \A r \in row(b.ceiling, x)..(row(a.ceiling, x) - 1) :
                        pixels[r * Width + x] = depth_colors(0).color
           /\ (mode = "idle" /\ calls >= 1)
              => \A x \in Columns \ (span[1]..(span[2] - 1)) :
                    \A r \in 0..(Height - 1) :
                        pixels[r * Width + x] \in
                            {14540253, depth_colors(0).color,
                             depth_colors(0).floor_color}

\* C10: the cycle guard is scoped to the current call chain: at the guard,
\* the recursive call is made exactly when the target sector is not among
\* the sectors of the active activations, whatever was rendered before.
C10_PathScopedGuard ==
    [][(InRender /\ Top.stage = "check")
        => ((Len(call_stack') = Len(call_stack) + 1)
              <=> (CurrentEdgeType.id \notin PathIds))]_vars

\* A sector has been entered a second time within one render call.
C10_Witness ==
    /\ InRender
    /\ \E i, j \in DOMAIN entered : i < j /\ entered[i] = entered[j]

\* The sign bits the edges of a sector give at a point.
SignBits(sector, point) ==
    {SignBit(coef(sector.edges[i], point)) : i \in DOMAIN sector.edges}

\* The sector a contains call was made on.
QuerySector == get_sector(map, query.id)[1]

\* C11 (as claimed): contains returns true exactly when the half-plane
\* values of the sector's edges do not all have the same sign.
C11_TrueIffSignsDiffer ==
    query.op = "contains"
        => (query.hit <=> Cardinality(SignBits(QuerySector, query.point)) # 1)

\* C11 (amended): Sector::contains of map.rs returns true exactly when the
\* half-plane values of the sector's edges all have the same sign bit, and
\* false when two edges give different sign bits.
C11_TrueIffSignsAgree ==
    query.op = "contains"
        => (query.hit <=> Cardinality(SignBits(QuerySector, query.point)) = 1)

\* contains returned true for a point where every edge gives sign bit 1
\* (the inside of a clockwise sector).
C11_Witness ==
    /\ query.op = "contains"
    /\ SignBits(QuerySector, query.point) = {1}
    /\ query.hit

\* Twice the signed area of the triangle (p, a, b).
Cross(p, a, b) ==
    (a[1] - p[1]) * (b[2] - p[2]) - (a[2] - p[2]) * (b[1] - p[1])

\* The cyclically next index of a point list.
NextIndex(points, i) == (i % Len(points)) + 1

RECURSIVE SumTo(_, _)
SumTo(f, n) == IF n = 0 THEN 0 ELSE f[n] + SumTo(f, n - 1)

\* Twice the area of the polygon, from its vertices alone.
PolygonArea2(points) ==
    Abs(SumTo([i \in 1..Len(points) |->
                   Cross(<<0, 0>>, points[i], points[NextIndex(points, i)])],
              Len(points)))

\* Twice the total area of the triangles a point spans with the sides.
FanArea2(points, p) ==
    SumTo([i \in 1..Len(points) |->
               Abs(Cross(p, points[i], points[NextIndex(points, i)]))],
          Len(points))

\* The polygon is convex and its vertices are in one winding order.
ConvexLoop(points) ==
    LET turn(i) == Cross(points[i], points[NextIndex(points, i)],
                         points[NextIndex(points, NextIndex(points, i))])
    IN  \/ \A i \in 1..Len(points) : turn(i) >= 0
        \/ \A i \in 1..Len(points) : turn(i) <= 0

\* The triangles fill the polygon exactly and none is degenerate.
StrictlyInside(points, p) ==
    /\ FanArea2(points, p) = PolygonArea2(points)
    /\ \A i \in 1..Len(points) :
          Cross(p, points[i], points[NextIndex(points, i)]) # 0

\* The triangles cover more than the polygon.
StrictlyOutside(points, p) == FanArea2(points, p) > PolygonArea2(points)

\* C12: for a convex sector with vertices in one winding order, contains
\* returns true for every point strictly inside the polygon and false for
\* every point strictly outside it.
C12_InsideOutside ==
    (query.op = "contains" /\ ConvexLoop(QuerySector.points))
        => /\ StrictlyInside(QuerySector.points, query.point) => query.hit
           /\ StrictlyOutside(QuerySector.points, query.point) => ~query.hit

\* contains returned false for a point strictly outside a sector of the
\* ring map.
C12_Witness ==
    /\ query.op = "contains"
    /\ map = RingMap
    /\ StrictlyOutside(QuerySector.points, query.point)
    /\ ~query.hit

\* Point p lies on the segment from a to b, strictly between its ends.
StrictlyBetween(p, a, b) ==
    /\ Cross(p, a, b) = 0
    /\ (p[1] - a[1]) * (p[1] - b[1]) + (p[2] - a[2]) * (p[2] - b[2]) < 0

\* The ids of the other sectors that share edge i of sector id: edge i is
\* a portal to the neighbour and the neighbour has a portal back across the
\* same two points.
SharedEdgeNeighbours(m, id, i) ==
    LET sector == get_sector(m, id)[1]
        e == sector.edges[i]
    IN  {n \in 0..(NumSectors(m) - 1) \ {id} :
            /\ sector.edge_types[i] = Portal(n)
            /\ \E j \in DOMAIN m.sectors[n + 1].edges :
                  /\ m.sectors[n + 1].edge_types[j] = Portal(id)
                  /\ {m.sectors[n + 1].edges[j].p0,
                      m.sectors[n + 1].edges[j].p1} = {e.p0, e.p1}}

\* C13 (as claimed): for a point exactly on an edge two sectors share,
\* between its endpoints, exactly one of the two sectors contains it.
C13_SharedEdgeExactlyOne ==
    query.op = "contains"
        => \A i \in DOMAIN QuerySector.edges :
              StrictlyBetween(query.point, QuerySector.edges[i].p0,
                              QuerySector.edges[i].p1)
                 => \A n \in SharedEdgeNeighbours(map, query.id, i) :
                       query.hit # Sector_contains(get_sector(map, n)[1],
                                                   query.point)

\* The ids of the existing sectors that sector id has a portal edge to.
PortalTargets(m, id) ==
    LET tys == get_sector(m, id)[1].edge_types
    IN  {tys[i].id : i \in {j \in DOMAIN tys :
                               tys[j].portal /\ tys[j].id < NumSectors(m)}}

\* C14 (as claimed): when the point is contained in the hint sector or in
\* a sector the hint has a portal edge to, find_adjacent_sector returns what
\* find_sector returns.
C14_AdjacentAgreesWithScan ==
    (/\ query.op = "find_adjacent_sector"
     /\ query.id < NumSectors(map)
     /\ \E n \in {query.id} \cup PortalTargets(map, query.id) :
           Sector_contains(get_sector(map, n)[1], query.point))
        => query.result = Map_find_sector(map, query.point)

C16_FromOld ==
    query.op = "find_sector_from_old"
        => LET adjacent == find_adjacent_sector(map, query.point, query.id)
           IN  /\ adjacent # -1 => query.result = adjacent
               /\ adjacent = -1
                     => query.result = Map_find_sector(map, query.point)
               /\ query.result # -1
                     <=> \E n \in 0..(NumSectors(map) - 1) :
                            Sector_contains(get_sector(map, n)[1], query.point)

\* The adjacency search from an existing old sector failed (the point is
\* further than one portal away) and the full scan found the sector.
C16_Witness ==
    /\ query.op = "find_sector_from_old"
    /\ query.id < NumSectors(map)
    /\ find_adjacent_sector(map, query.point, query.id) = -1
    /\ query.result # -1

\* The location is strictly outside every sector of the map.
LiesInNoSector(m, location) ==
    \A id \in 0..(NumSectors(m) - 1) :
        StrictlyOutside(get_sector(m, id)[1].points, location)

LoadedData == ParseLines(loaded.source, 1, NoData)

LoadedIds == 0..(Len(LoadedData.sectors) - 1)

\* Sector id of the collected data has an edge whose pair is no wall and
\* is an edge pair of no other sector.
HasUnsharedEdge(data, id) ==
    \E i \in 1..Len(data.sectors[id + 1].point_indices) :
        LET pair == EdgePair(data.sectors[id + 1].point_indices, i)
        IN  /\ pair \notin data.walls
            /\ \A other \in 0..(Len(data.sectors) - 1) \ {id} :
                  pair \notin SectorWalls(data.sectors[other + 1].point_indices)

\* Sector id names a point index that no point line declared.
HasUndeclaredIndex(data, id) ==
    \E i \in 1..Len(data.sectors[id + 1].point_indices) :
        data.sectors[id + 1].point_indices[i] >= Len(data.points)

\* Sector id has floor > ceiling.
HasFloorAboveCeiling(data, id) ==
    /\ data.sectors[id + 1].floor # NaN
    /\ data.sectors[id + 1].ceiling # NaN
    /\ data.sectors[id + 1].floor > data.sectors[id + 1].ceiling

\* Every Portal(id) edge of a returned Map names an existing sector other
\* than its owner.
PortalIdsValid ==
    loaded.result.ok =>
        \A owner \in 0..(NumSectors(loaded.result.map) - 1) :
            \A i \in 1..Len(get_sector(loaded.result.map, owner)[1].edge_types) :
                LET ty == get_sector(loaded.result.map, owner)[1].edge_types[i]
                IN  ty.portal => (ty.id < NumSectors(loaded.result.map)
                                     /\ ty.id # owner)

\* C18 as stated: in every returned Map each Portal(id) edge has
\* id < number of sectors and id # the owning sector's index, and an input
\* in which a non-wall edge is shared with no other sector yields
\* NoAdjointSectorForPortal and no Map.
C18_PortalIdsAndNoAdjoint ==
    loaded # NotLoaded =>
        /\ PortalIdsValid
        /\ (LoadedData.error = "none"
                /\ \E id \in LoadedIds : HasUnsharedEdge(LoadedData, id))
            => (~loaded.result.ok
                    /\ loaded.result.error = "NoAdjointSectorForPortal")

\* C18 amended: the same for the portal ids; an input whose lines all parse
\* and in which a non-wall edge is shared with no other sector yields no
\* Map, and the error is NoAdjointSectorForPortal unless an earlier check
\* fails first: InvalidPointIndex for an undeclared point index in that
\* sector or a sector before it, InvalidSectorBounds for floor > ceiling in
\* a sector before it.
C18_PortalIdsAndFirstError ==
    loaded # NotLoaded =>
        /\ PortalIdsValid
        /\ (LoadedData.error = "none"
                /\ \E id \in LoadedIds : HasUnsharedEdge(LoadedData, id))
            => LET first == CHOOSE id \in LoadedIds :
                                /\ HasUnsharedEdge(LoadedData, id)
                                /\ \A other \in LoadedIds :
                                      HasUnsharedEdge(LoadedData, other)
                                          => id <= other
                   early == { id \in LoadedIds :
                                \/ id <= first
                                      /\ HasUndeclaredIndex(LoadedData, id)
                                \/ id < first
                                      /\ HasFloorAboveCeiling(LoadedData, id) }
               IN  /\ ~loaded.result.ok
                   /\ (early = {})
                        => loaded.result.error = "NoAdjointSectorForPortal"
                   /\ (early # {})
                        => loaded.result.error \in
                               {"InvalidPointIndex", "InvalidSectorBounds"}

\* A Map of three sectors with a portal edge was returned.
C18_Witness ==
    /\ loaded.result.ok
    /\ NumSectors(loaded.result.map) = 3
    /\ \E owner \in 0..2 :
          \E i \in 1..Len(get_sector(loaded.result.map, owner)[1].edge_types) :
              get_sector(loaded.result.map, owner)[1].edge_types[i].portal

\* C19: in every returned Map portal adjacency is mutual: whenever sector A
\* has a Portal(B) edge between two points, sector B has a Portal(A) edge
\* between the same two points in reverse orientation, for any number of
\* sectors sharing point pairs.
C19_PortalsMutual ==
    loaded.result.ok =>
        \A a \in 0..(NumSectors(loaded.result.map) - 1) :
            LET sector_a == get_sector(loaded.result.map, a)[1]
            IN  \A i \in 1..Len(sector_a.edge_types) :
                    sector_a.edge_types[i].portal =>
                        LET b == sector_a.edge_types[i].id
                            sector_b == get_sector(loaded.result.map, b)[1]
                        IN  \E j \in 1..Len(sector_b.edge_types) :
                                /\ sector_b.edge_types[j] = Portal(a)
                                /\ sector_b.edges[j].p0 = sector_a.edges[i].p1
                                /\ sector_b.edges[j].p1 = sector_a.edges[i].p0

\* C20: load_from_wmt fails before constructing a Map whenever a sector
\* line lists fewer than 3 point indices (NotEnoughSectorVertices), a sector
\* has floor > ceiling (InvalidSectorBounds) or a sector references a point
\* index that was not declared (InvalidPointIndex); every sector of a
\* returned Map has at least 3 edges, as many edges as points, and
\* floor <= ceiling.
C20_MalformedSectorsRejected ==
    loaded # NotLoaded =>
        /\ (\E n \in 1..Len(loaded.source) :
                /\ loaded.source[n][1] \in {"s", "sector"}
                /\ Len(loaded.source[n]) - 3 < 3)
            => ~loaded.result.ok
        /\ (LoadedData.error = "none"
                /\ \E id \in LoadedIds :
                      \/ HasFloorAboveCeiling(LoadedData, id)
                      \/ HasUndeclaredIndex(LoadedData, id))
            => ~loaded.result.ok
        /\ (loaded.result.error = "NotEnoughSectorVertices")
            => \E n \in 1..Len(loaded.source) :
                  /\ loaded.source[n][1] \in {"s", "sector"}
                  /\ Len(loaded.source[n]) - 3 < 3
        /\ (loaded.result.error = "InvalidSectorBounds")
            => \E id \in LoadedIds : HasFloorAboveCeiling(LoadedData, id)
        /\ (loaded.result.error = "InvalidPointIndex")
            => \E id \in LoadedIds : HasUndeclaredIndex(LoadedData, id)
        /\ loaded.result.ok
            => \A id \in 0..(NumSectors(loaded.result.map) - 1) :
                  LET sector == get_sector(loaded.result.map, id)[1]
                  IN  /\ Len(sector.edges) >= 3
                      /\ Len(sector.edges) = Len(sector.points)
                      /\ f32_le(sector.floor, sector.ceiling)

\* C21: every sector of a Map returned by load_from_wmt has its vertices
\* in one winding order, forming a convex loop; input whose sector point
\* list is not consistently wound is rejected instead of producing a Map.
C21_SectorsConvex ==
    loaded.result.ok =>
        \A id \in 0..(NumSectors(loaded.result.map) - 1) :
            ConvexLoop(get_sector(loaded.result.map, id)[1].points)

\* The activation is about to run the column loop of its current edge.
AboutToPaint == AtEdge /\ camera_edge(camera, CurrentEdge).visible

\* main.rs:580-589: (xp0, xp1) of the current edge.
EdgeSpan ==
    clipped_span(camera_edge(camera, CurrentEdge), Width,
                 Top.screen_x_begin, Top.screen_x_end)

\* main.rs:631-632: ceil_y and floor_y of the current edge at column x.
EdgeCeilY(x) ==
    ceil_row(column_y(inv_distance(camera_edge(camera, CurrentEdge), x,
                                   Width), Height), Height)

EdgeFloorY(x) ==
    floor_row(column_y(inv_distance(camera_edge(camera, CurrentEdge), x,
                                    Width), Height), Height)

\* main.rs:634-661: the rows the three fill loops of the current edge write
\* at column x, searched up to twice the surface height.
EdgeRows(x) ==
    { r \in 0..(2 * Height) :
        column_fill(r, ceil_buffer[x], floor_buffer[x], EdgeCeilY(x),
                    EdgeFloorY(x), CurrentEdgeType.portal,
                    depth_colors(Len(visit_stack))) # <<>> }

\* C22: every pixel write of Render::render targets a column x < width and
\* a row < height, an offset row * width + x below width * height, and
\* every access to ceil_buffer, floor_buffer and inv_depth_buffer uses an
\* index below width, for odd and even heights and any recursion depth.
C22_WritesInBounds ==
    AboutToPaint =>
        \A x \in EdgeSpan[1]..(EdgeSpan[2] - 1) :
            /\ x >= 0 /\ x < Width
            /\ x \in DOMAIN floor_buffer
            /\ x \in DOMAIN ceil_buffer
            /\ x \in DOMAIN inv_depth_buffer
            /\ ceil_buffer[x] >= 0
            /\ EdgeCeilY(x) >= 0
            /\ \A r \in EdgeRows(x) :
                  r < Height /\ r * Width + x < Width * Height

\* On a surface of odd height an edge is about to be painted up to the
\* last column and down to the last row.
C22_Witness ==
    /\ AboutToPaint
    /\ Height % 2 = 1
    /\ EdgeSpan[1] < EdgeSpan[2]
    /\ EdgeSpan[2] = Width
    /\ (Height - 1) \in EdgeRows(Width - 1)

\* The endpoints of the current edge in camera space, ordered by x
\* (main.rs:548-555), before the clip.
EdgeEnds ==
    LET a == to_space(camera, CurrentEdge.p0)
        b == to_space(camera, CurrentEdge.p1)
    IN  IF a.x > b.x THEN <<b, a>> ELSE <<a, b>>

\* The camera-space point c = (c.x / c.d, c.y / c.d) lies on the line
\* through the unclipped points a and b.
OnLine(a, b, c) ==
    (b.x - a.x) * (c.y - a.y * c.d) - (b.y - a.y) * (c.x - a.x * c.d) = 0

\* C23: when exactly one endpoint of an edge has camera-space depth <= 0,
\* the clip replaces it by a point whose depth is the clip epsilon and
\* which lies on the line through the two original endpoints; the other
\* endpoint is unchanged.
C23_ClipOnLine ==
    (AtEdge /\ (EdgeEnds[1].y <= 0) # (EdgeEnds[2].y <= 0)) =>
        LET ce == camera_edge(camera, CurrentEdge)
            clipped == IF EdgeEnds[1].y <= 0 THEN ce.p0 ELSE ce.p1
            kept == IF EdgeEnds[1].y <= 0 THEN ce.p1 ELSE ce.p0
            original == IF EdgeEnds[1].y <= 0 THEN EdgeEnds[2] ELSE EdgeEnds[1]
        IN  /\ clipped.y = Eps * clipped.d
            /\ OnLine(EdgeEnds[1], EdgeEnds[2], clipped)
            /\ kept = original

\* C24: for every edge processed by a render_sector call with inherited
\* range [screen_x_begin, screen_x_end] the clipped span satisfies
\* screen_x_begin <= xp0 <= xp1 <= screen_x_end; every column painted by
\* the call and the range passed to every recursive call lie inside the
\* caller's range, and ranges never widen along a recursion path.
C24_SpanInsideRange ==
    /\ [](AboutToPaint =>
            /\ Top.screen_x_begin <= EdgeSpan[1]
            /\ EdgeSpan[1] <= EdgeSpan[2]
            /\ EdgeSpan[2] <= Top.screen_x_end)
    /\ [](\A i \in 2..Len(call_stack) :
            /\ call_stack[i].screen_x_begin = call_stack[i - 1].xp0
            /\ call_stack[i].screen_x_end = call_stack[i - 1].xp1
            /\ call_stack[i - 1].screen_x_begin <= call_stack[i].screen_x_begin
            /\ call_stack[i].screen_x_begin <= call_stack[i].screen_x_end
            /\ call_stack[i].screen_x_end <= call_stack[i - 1].screen_x_end)
    /\ [][InRender =>
            \A off \in Offsets :
                (writes'[off] # writes[off] \/ pixels'[off] # pixels[off])
                    => /\ Top.screen_x_begin <= off % Width
                       /\ off % Width < Top.screen_x_end]_vars

\* A recursive call with a range narrower than its caller's is about to
\* paint an edge in a non-empty span.
C24_Witness ==
    /\ AboutToPaint
    /\ Len(call_stack) >= 2
    /\ Top.screen_x_end - Top.screen_x_begin
          < call_stack[Len(call_stack) - 1].screen_x_end
              - call_stack[Len(call_stack) - 1].screen_x_begin
    /\ EdgeSpan[1] < EdgeSpan[2]

\* C25: when an edge is painted at column x, every row it writes lies in
\* [ceil_buffer[x], floor_buffer[x]) as the buffers stood before the edge,
\* and no pixel is written more than once during a render call.
C25_PaintInsideOpenRange ==
    /\ AboutToPaint =>
          \A x \in EdgeSpan[1]..(EdgeSpan[2] - 1) :
              \A r \in EdgeRows(x) :
                  ceil_buffer[x] <= r /\ r < floor_buffer[x]
    /\ \A off \in Offsets : writes[off] <= 1

\* main.rs:631-632 for the portal edge the activation below the running
\* one is descending through: its ceil_y and floor_y at column x.
CallerEdge ==
    camera_edge(camera,
        get_sector(map, call_stack[Len(call_stack) - 1].sector_id)[1]
            .edges[call_stack[Len(call_stack) - 1].edge])

CallerCeilY(x) ==
    ceil_row(column_y(inv_distance(CallerEdge, x, Width), Height), Height)

CallerFloorY(x) ==
    floor_row(column_y(inv_distance(CallerEdge, x, Width), Height), Height)

\* The step paints a portal edge: at each of its columns no row from ceil_y
\* up to floor_y is written, and the buffers are set to (ceil_y, floor_y).
PortalLeavesMiddleBand ==
    (AboutToPaint /\ CurrentEdgeType.portal) =>
        \A x \in EdgeSpan[1]..(EdgeSpan[2] - 1) :
            /\ ceil_buffer'[x] = EdgeCeilY(x)
            /\ floor_buffer'[x] = EdgeFloorY(x)
            /\ \A r \in 0..(Height - 1) :
                  (writes'[r * Width + x] # writes[r * Width + x])
                      => (r < EdgeCeilY(x) \/ r >= EdgeFloorY(x))

\* The step paints a wall edge: at each of its columns the rows from where
\* the ceiling band ends down to floor_y get the wall colour.
WallPaintsBand ==
    (AboutToPaint /\ ~CurrentEdgeType.portal) =>
        \A x \in EdgeSpan[1]..(EdgeSpan[2] - 1) :
            \A r \in Max(ceil_buffer[x], EdgeCeilY(x))..(EdgeFloorY(x) - 1) :
                /\ pixels'[r * Width + x] = depth_colors(Len(visit_stack)).color
                /\ writes'[r * Width + x] = writes[r * Width + x] + 1

\* A recursive call writes only rows of the middle band its caller's
\* portal edge left at the column.
CalleeInsideMiddleBand ==
    (AboutToPaint /\ Len(call_stack) >= 2) =>
        \A x \in EdgeSpan[1]..(EdgeSpan[2] - 1) :
            \A r \in EdgeRows(x) :
                CallerCeilY(x) <= r /\ r < CallerFloorY(x)

\* C26: when a portal edge is painted at column x the rows between the
\* computed ceiling row and floor row are left unwritten by that edge, and
\* ceil_buffer[x] / floor_buffer[x] are set to that middle band so that the
\* recursive call into the neighbour writes only rows inside it; for a
\* wall edge the whole band down to the floor row gets the wall colour.
C26_PortalMiddleBand ==
    /\ [][PortalLeavesMiddleBand /\ WallPaintsBand]_vars
    /\ []CalleeInsideMiddleBand

\* C27: after the initial set_location call camera.location equals
\* map.camera_location and camera.rotation equals map.camera_rotation.
C27_SpawnPose ==
    (mode = "idle" /\ loaded.result.ok) =>
        /\ camera.location = loaded.result.camera_location
        /\ camera.rotation = loaded.result.camera_rotation

\* The sector ids of the activations below the running one: the visit
\* stack the running activation was entered with.
CallerIds == [i \in 1..(Len(call_stack) - 1) |-> call_stack[i].sector_id]

\* C28: every render_sector call returns with the visit stack as it was on
\* entry (each push is matched by one pop, whether or not the descent was
\* taken), and the stack is empty when Render::render returns.
C28_VisitStackRestored ==
    /\ (InRender /\ Top.stage = "edge") => visit_stack = CallerIds
    /\ (InRender /\ Top.stage \in {"check", "call", "returned"})
          => visit_stack = Append(CallerIds, Top.sector_id)
    /\ mode = "idle" => visit_stack = <<>>

\* Render::render has returned after a render in which a portal was
\* descended through and the portal back was skipped.
C28_Witness ==
    /\ mode = "idle"
    /\ calls >= 1
    /\ map = TwoRoomMap
    /\ Len(entered) >= 2
    /\ visit_stack = <<>>

\* C29: a key's changed flag is true exactly when its pressed state differs
\* from the pressed state at the last clear_changed; is_key_clicked is true
\* only in a frame in which the key went from released to pressed, and is
\* false for every key right after clear_changed.
C29_ChangedIffPressedDiffers ==
    /\ [](\A key \in KeyCodes :
            /\ get_key_state(input, key).changed
                 <=> (is_key_pressed(input, key) # last_clear[key])
            /\ is_key_clicked(input, key)
                 => (~last_clear[key] /\ is_key_pressed(input, key)))
    /\ [][input' = clear_changed(input)
            => \A key \in KeyCodes : ~is_key_clicked(input', key)]_vars

\* The i32 that is minus the value of a.
Negated(a) ==
    IF a.frac = 0
    THEN I32(-a.int, 0)
    ELSE I32(-a.int - 1, FractOne - a.frac)

\* C30: Fixed::abs returns a non-negative number, the input itself when the
\* input is non-negative and its magnitude when the input is negative.
C30_AbsIsMagnitude ==
    fixed.called
        => /\ fixed.result.int >= 0
           /\ fixed.self.int >= 0 => fixed.result = fixed.self
           /\ fixed.self.int < 0 => fixed.result = Negated(fixed.self)

====
